---- MODULE Spec2Model ----
(***************************************************************************)
(* State-machine model of the TiDB migration calculator                    *)
(* (src/calculator.js; src/unnamed/part_000 carries the same component     *)
(* behind a shorter form).                                                 *)
(*                                                                         *)
(* The component keeps seven pieces of React state, changes them in six    *)
(* input handlers and derives the rest in two effects.  A commit of the   *)
(* component runs, in source order, the effects whose dependency lists     *)
(* changed; both read the values of the render they belong to (their       *)
(* closure) and queue functional updates, which React applies in order     *)
(* before the next render.  One Flush step is one such commit.             *)
(*                                                                         *)
(* Numbers.  Node counts, sizes and rates are integers.  Money is kept in  *)
(* thousandths of a dollar wherever the source multiplies by a fractional  *)
(* price, so that every product and sum is exact; instance prices stay in  *)
(* whole dollars as in the catalog.  peakRatio (input step 0.5) is kept in *)
(* halves.  Quotients under Math.ceil are computed as exact rationals.     *)
(* Text is a sequence of one-character strings, so that startsWith is a    *)
(* real prefix test.                                                       *)
(***************************************************************************)
EXTENDS Integers, Sequences, FiniteSets, TLC

(***************************************************************************)
(* Bounds of the exploration.                                              *)
(***************************************************************************)
\* input events accepted in a behaviour of Spec
MaxEdits == 2
\* input events accepted in a behaviour of SpecHistory
MaxHistoryEdits == 11

\* input events in a run of the storage-tier sizing specification
MaxSizingEdits == 5

\* input events in a run of the free-text ratio specification
MaxRatioEdits == 3

\* input events in a run of the empty-source specification
MaxCountEdits == 3

\* input events in a run of the settling specification
MaxLiveEdits == 2

\* commits that the model lets follow one input event; the component has no
\* such limit, and no run comes near it
MaxCommits == 6

(***************************************************************************)
(* Arithmetic helpers.                                                     *)
(***************************************************************************)
\* the JavaScript number NaN, next to the integers that stand for the other
\* numbers; Object.is(NaN, NaN) holds, as NaN = NaN does here
NaN == -999999999

\* a * b and a + b on numbers
Times(a, b) == IF a = NaN \/ b = NaN THEN NaN ELSE a * b

Plus(a, b) == IF a = NaN \/ b = NaN THEN NaN ELSE a + b

\* Math.max and Math.min
Max(a, b) == IF a = NaN \/ b = NaN THEN NaN ELSE IF a >= b THEN a ELSE b

Min(a, b) == IF a = NaN \/ b = NaN THEN NaN ELSE IF a <= b THEN a ELSE b

\* Math.ceil(n / d) for n >= 0, d >= 0, where 0 / 0 is NaN
CeilDiv(n, d) ==
  IF n = NaN \/ d = NaN \/ (n = 0 /\ d = 0) THEN NaN ELSE (n + d - 1) \div d

\* String.prototype.startsWith on text kept as a sequence of characters
StartsWith(s, p) == Len(s) >= Len(p) /\ SubSeq(s, 1, Len(p)) = p

\* the oldest element where Last takes the newest
Oldest(s) == s[1]

\* s[s.length - 1]
Last(s) == s[Len(s)]

(***************************************************************************)
(* Catalogs.                                                               *)
(***************************************************************************)
ec2InstanceTypes ==
     "c5.2xlarge"   :> [vCPU |-> 8,  memory |-> 16,  monthlyCost |-> 246,  nvme |-> 0] @@
     "c5.4xlarge"   :> [vCPU |-> 16, memory |-> 32,  monthlyCost |-> 493,  nvme |-> 0] @@
     "c5.9xlarge"   :> [vCPU |-> 36, memory |-> 72,  monthlyCost |-> 1109, nvme |-> 0] @@
     "r5.2xlarge"   :> [vCPU |-> 8,  memory |-> 64,  monthlyCost |-> 387,  nvme |-> 0] @@
     "r5.4xlarge"   :> [vCPU |-> 16, memory |-> 128, monthlyCost |-> 774,  nvme |-> 0] @@
     "r5.8xlarge"   :> [vCPU |-> 32, memory |-> 256, monthlyCost |-> 1548, nvme |-> 0] @@
     "m5.2xlarge"   :> [vCPU |-> 8,  memory |-> 32,  monthlyCost |-> 278,  nvme |-> 0] @@
     "m5.4xlarge"   :> [vCPU |-> 16, memory |-> 64,  monthlyCost |-> 556,  nvme |-> 0] @@
     "i3.2xlarge"   :> [vCPU |-> 8,  memory |-> 61,  monthlyCost |-> 499,  nvme |-> 1900] @@
     "i3.4xlarge"   :> [vCPU |-> 16, memory |-> 122, monthlyCost |-> 998,  nvme |-> 3800] @@
     "i3.8xlarge"   :> [vCPU |-> 32, memory |-> 244, monthlyCost |-> 1995, nvme |-> 7600] @@
     "i3en.2xlarge" :> [vCPU |-> 8,  memory |-> 64,  monthlyCost |-> 623,  nvme |-> 5000] @@
     "i3en.3xlarge" :> [vCPU |-> 12, memory |-> 96,  monthlyCost |-> 935,  nvme |-> 7500]

\* prices in thousandths of a dollar; 0 stands for a price the entry lacks
ebsVolumeTypes ==
     "gp3" :> [basePrice |-> 80,  throughputPrice |-> 40, iopsPrice |-> 5] @@
     "gp2" :> [basePrice |-> 100, throughputPrice |-> 0,  iopsPrice |-> 0] @@
     "io1" :> [basePrice |-> 125, throughputPrice |-> 0,  iopsPrice |-> 65] @@
     "io2" :> [basePrice |-> 125, throughputPrice |-> 0,  iopsPrice |-> 65]

postgresInstanceTypes ==
     "db.m5.large"  :> [vCPU |-> 2,  memory |-> 8,   monthlyCost |-> 218] @@
     "db.m5.xlarge" :> [vCPU |-> 4,  memory |-> 16,  monthlyCost |-> 437] @@
     "db.m5.2xlarge" :> [vCPU |-> 8,  memory |-> 32,  monthlyCost |-> 874] @@
     "db.r5.large"  :> [vCPU |-> 2,  memory |-> 16,  monthlyCost |-> 276] @@
     "db.r5.xlarge" :> [vCPU |-> 4,  memory |-> 32,  monthlyCost |-> 552] @@
     "db.r5.2xlarge" :> [vCPU |-> 8,  memory |-> 64,  monthlyCost |-> 1104] @@
     "db.r5.4xlarge" :> [vCPU |-> 16, memory |-> 128, monthlyCost |-> 2208]

\* catalog[key]?.field || fallback
Lookup(catalog, key, field, fallback) ==
  IF key \in DOMAIN catalog /\ catalog[key][field] # 0
    THEN catalog[key][field]
    ELSE fallback

\* the readWriteRatio options of the select
Ratio9010 == <<"9", "0", "/", "1", "0">>

Ratio8020 == <<"8", "0", "/", "2", "0">>

Ratio5050 == <<"5", "0", "/", "5", "0">>

Ratio3070 == <<"3", "0", "/", "7", "0">>

(***************************************************************************)
(* State.                                                                  *)
(***************************************************************************)
VARIABLES
  postgres,        \* useState: PostgreSQL inputs
  workload,        \* useState: workload characteristics
  tidbCluster,     \* useState: TiDB cluster configuration
  instances,       \* useState: EC2 instance selections
  storage,         \* useState: storage configuration
  operational,     \* useState: operational costs
  comparisonData,  \* useState: previousInstanceType, history, costBreakdown
  derivationDeps,  \* dependency values of the derivation effect at its last commit
  costDeps,        \* dependency values of the cost-breakdown effect at its last commit
  classChanges,    \* history variable: every change of postgres.instanceType, in order
  overridden,      \* history variable: derived cluster fields edited by hand since the last derivation
  edits,           \* number of input events so far
  ebsCall,         \* the last direct call of calculateEbsCost: arguments and result
  commits          \* history variable: commits since the last input event

vars == <<postgres, workload, tidbCluster, instances, storage, operational,
          comparisonData, derivationDeps, costDeps, classChanges, overridden, edits,
          ebsCall, commits>>

\* the effects have not run yet (before the first commit)
NoDeps == <<>>

\* calculateEbsCost has not been called directly
NoCall == <<>>

Init ==
  /\ postgres = [ instanceType |-> "db.r5.2xlarge", instanceCount |-> 2,
                  storageGB |-> 1000, iops |-> 3000, readOps |-> 5000,
                  writeOps |-> 1000, monthlyCost |-> 2208 * 2,
                  multiAZ |-> TRUE, readReplicas |-> 1 ]
  /\ workload = [ readWriteRatio |-> Ratio8020, type |-> "OLTP",
                  dataGrowthRate |-> 10, concurrentConnections |-> 200,
                  trafficSpikes |-> TRUE, peakRatio |-> 6 ]
  /\ tidbCluster = [ tidbNodes |-> 3, tikvNodes |-> 3, pdNodes |-> 3,
                     tiflashNodes |-> 0, useTiflash |-> FALSE,
                     eksClusterCount |-> 1, k8sWorkerNodes |-> 6,
                     availabilityZones |-> 3, dataReplicationFactor |-> 3 ]
  /\ instances = [ tidbInstanceType |-> "c5.4xlarge",
                   tikvInstanceType |-> "i3.4xlarge",
                   pdInstanceType |-> "m5.4xlarge",
                   tiflashInstanceType |-> "i3.8xlarge",
                   monitoringInstanceType |-> "c5.2xlarge" ]
  /\ storage = [ tidbEbsType |-> "gp3", tidbEbsSize |-> 100,
                 tikvUseInstanceStore |-> TRUE,
                 tikvAdditionalEbsType |-> "gp3", tikvAdditionalEbsSize |-> 0,
                 pdEbsType |-> "gp3", pdEbsSize |-> 100,
                 tiflashEbsType |-> "gp3", tiflashEbsSize |-> 1000 ]
  /\ operational = [ backupToS3 |-> TRUE, backupSizeGB |-> 1000,
                     networkTrafficGB |-> 5000, eksClusterCost |-> 73,
                     eksMonitoringCost |-> 200, migrationCost |-> 5000,
                     operationalFTE |-> 5 ]
  /\ comparisonData = [ previousInstanceType |-> "db.r5.2xlarge",
                        history |-> <<>>, costBreakdown |-> <<>> ]
  /\ derivationDeps = NoDeps
  /\ costDeps = NoDeps
  /\ classChanges = <<>>
  /\ overridden = {}
  /\ edits = 0
  /\ ebsCall = NoCall
  /\ commits = 0

\* the values a render of the component sees; the closure of its effects and handlers
State ==
  [ postgres |-> postgres, workload |-> workload, tidbCluster |-> tidbCluster,
    instances |-> instances, storage |-> storage, operational |-> operational,
    comparisonData |-> comparisonData ]

(***************************************************************************)
(* The derivation effect: sizing rules.  c is the closure of the render.   *)
(***************************************************************************)
postgresVcpu(c) == Lookup(postgresInstanceTypes, c.postgres.instanceType, "vCPU", 8)

postgresMemory(c) == Lookup(postgresInstanceTypes, c.postgres.instanceType, "memory", 32)

totalPostgresVcpu(c) == postgresVcpu(c) * c.postgres.instanceCount

vcpuPerTidbNode(c) == Lookup(ec2InstanceTypes, c.instances.tidbInstanceType, "vCPU", 16)

\* effectivePostgresVcpu = total + total * (readReplicas / instanceCount), so
\* ceil(effective / perNode) = ceil((total*count + total*replicas) / (count*perNode));
\* with instanceCount = 0 the total is 0 and 0 * (readReplicas / 0) is NaN
suggestedTidbNodesFromCpu(c) ==
  Max(3, CeilDiv(totalPostgresVcpu(c) * c.postgres.instanceCount
                   + totalPostgresVcpu(c) * c.postgres.readReplicas,
                 c.postgres.instanceCount * vcpuPerTidbNode(c)))

suggestedTidbNodesFromConn(c) ==
  Max(3, CeilDiv(c.workload.concurrentConnections, 500))

baseTidbNodes(c) == Max(suggestedTidbNodesFromCpu(c), suggestedTidbNodesFromConn(c))

\* compressionRatio = 0.4 and storageUsageRatio = 0.8, in tenths
compressionRatio == 4

storageUsageRatio == 8

defaultNodeCapacity == 4000

writesPerTikvNode == 5000

suggestedTikvNodesForStorage(c) ==
  CeilDiv(c.postgres.storageGB * compressionRatio * c.tidbCluster.dataReplicationFactor,
          storageUsageRatio * defaultNodeCapacity * 3) * 3

\* suggestedTikvNodesFromWrites taking the remainder where the source divides
suggestedTikvNodesFromWritesModulo(c) ==
  Max(3, (CeilDiv(c.postgres.writeOps, writesPerTikvNode) % 3) * 3)

suggestedTikvNodesFromWrites(c) ==
  Max(3, CeilDiv(c.postgres.writeOps, writesPerTikvNode * 3) * 3)

suggestedTikvNodes(c) ==
  Max(3, Max(suggestedTikvNodesForStorage(c), suggestedTikvNodesFromWrites(c)))

\* 1.5, 2 or 1, as <<numerator, denominator>>
writeHeavyFactor(c) ==
  IF StartsWith(c.workload.readWriteRatio, <<"5", "0">>) THEN <<3, 2>>
  ELSE IF StartsWith(c.workload.readWriteRatio, <<"3", "0">>) THEN <<2, 1>>
  ELSE <<1, 1>>

useTiflash(c) == c.workload.type = "OLAP" \/ c.workload.type = "Mixed"

tiflashReplicas(c) == IF useTiflash(c) THEN 2 ELSE 0

suggestedTiflashNodes(c) ==
  IF useTiflash(c)
    THEN Max(2, CeilDiv(c.postgres.storageGB * compressionRatio * tiflashReplicas(c),
                        c.tidbCluster.dataReplicationFactor * storageUsageRatio
                          * defaultNodeCapacity))
    ELSE 0

\* spikeFactor without the cap of 2
spikeFactorUncapped(c) ==
  IF c.workload.trafficSpikes THEN <<c.workload.peakRatio, 4>> ELSE <<1, 1>>

\* trafficSpikes ? min(2, peakRatio / 2) : 1, as <<numerator, denominator>>;
\* peakRatio is kept in halves, so peakRatio / 2 is c.workload.peakRatio / 4
spikeFactor(c) ==
  IF c.workload.trafficSpikes THEN <<Min(8, c.workload.peakRatio), 4>> ELSE <<1, 1>>

\* Math.ceil(baseTidbNodes * spikeFactor)
derivedTidbNodes(c) ==
  CeilDiv(Times(baseTidbNodes(c), spikeFactor(c)[1]), spikeFactor(c)[2])

\* derivedTikvNodes with the spike multiplier applied as well
derivedTikvNodesSpiked(c) ==
  CeilDiv(suggestedTikvNodes(c) * writeHeavyFactor(c)[1] * spikeFactor(c)[1],
          writeHeavyFactor(c)[2] * spikeFactor(c)[2])

\* Math.ceil(suggestedTikvNodes * writeHeavyFactor)
derivedTikvNodes(c) ==
  CeilDiv(suggestedTikvNodes(c) * writeHeavyFactor(c)[1], writeHeavyFactor(c)[2])

totalComponents(c) ==
  Plus(derivedTidbNodes(c),
       derivedTikvNodes(c) + c.tidbCluster.pdNodes + suggestedTiflashNodes(c) + 1)

\* componentsPerWorker = 1.5: ceil(total / 1.5) = ceil(2 * total / 3)
suggestedWorkerNodes(c) == Max(6, CeilDiv(Times(totalComponents(c), 2), 3))

\* derivedTidbInstanceType moving away from the class selected, whatever it is
derivedTidbInstanceTypeToggling(c) ==
  IF c.instances.tidbInstanceType = "c5.4xlarge" THEN "r5.2xlarge" ELSE "c5.4xlarge"

\* the memory rule of the SQL-tier instance class
derivedTidbInstanceType(c) ==
  IF postgresMemory(c) >= 128 THEN "r5.4xlarge"
  ELSE IF postgresMemory(c) >= 64 THEN "r5.2xlarge"
  ELSE "c5.4xlarge"

(***************************************************************************)
(* Values computed during a render: instance prices and the cost model.    *)
(***************************************************************************)
tidbInstanceCost(c) ==
  Lookup(ec2InstanceTypes, c.instances.tidbInstanceType, "monthlyCost", 493)

tikvInstanceCost(c) ==
  Lookup(ec2InstanceTypes, c.instances.tikvInstanceType, "monthlyCost", 998)

pdInstanceCost(c) ==
  Lookup(ec2InstanceTypes, c.instances.pdInstanceType, "monthlyCost", 278)

tiflashInstanceCost(c) ==
  Lookup(ec2InstanceTypes, c.instances.tiflashInstanceType, "monthlyCost", 1995)

monitoringInstanceCost(c) ==
  Lookup(ec2InstanceTypes, c.instances.monitoringInstanceType, "monthlyCost", 246)

\* whole dollars
totalInstanceCost(c) ==
  Plus(Times(tidbInstanceCost(c), c.tidbCluster.tidbNodes),
       tikvInstanceCost(c) * c.tidbCluster.tikvNodes
         + pdInstanceCost(c) * c.tidbCluster.pdNodes
         + tiflashInstanceCost(c) * c.tidbCluster.tiflashNodes
         + monitoringInstanceCost(c))

\* calculateEbsCost without the early return for a size of 0
calculateEbsCostNoZeroCheck(type, sizeGB, iops, throughput) ==
  LET ebsType == IF type \in DOMAIN ebsVolumeTypes
                   THEN ebsVolumeTypes[type] ELSE ebsVolumeTypes["gp3"]
  IN  sizeGB * ebsType.basePrice
        + (IF type = "gp3" /\ iops > 3000
             THEN (iops - 3000) * ebsType.iopsPrice ELSE 0)
        + (IF type = "gp3" /\ throughput > 125
             THEN (throughput - 125) * ebsType.throughputPrice ELSE 0)
        + (IF (type = "io1" \/ type = "io2") /\ iops # 0
             THEN iops * ebsType.iopsPrice ELSE 0)

\* thousandths of a dollar
calculateEbsCost(type, sizeGB, iops, throughput) ==
  IF sizeGB = 0 THEN 0
  ELSE LET ebsType == IF type \in DOMAIN ebsVolumeTypes
                        THEN ebsVolumeTypes[type] ELSE ebsVolumeTypes["gp3"]
       IN  sizeGB * ebsType.basePrice
             + (IF type = "gp3" /\ iops > 3000
                  THEN (iops - 3000) * ebsType.iopsPrice ELSE 0)
             + (IF type = "gp3" /\ throughput > 125
                  THEN (throughput - 125) * ebsType.throughputPrice ELSE 0)
             + (IF (type = "io1" \/ type = "io2") /\ iops # 0
                  THEN iops * ebsType.iopsPrice ELSE 0)

tidbStorageCost(c) ==
  Times(calculateEbsCost(c.storage.tidbEbsType, c.storage.tidbEbsSize, 3000, 125),
        c.tidbCluster.tidbNodes)

tikvAdditionalStorageCost(c) ==
  calculateEbsCost(c.storage.tikvAdditionalEbsType, c.storage.tikvAdditionalEbsSize,
                   3000, 125) * c.tidbCluster.tikvNodes

pdStorageCost(c) ==
  calculateEbsCost(c.storage.pdEbsType, c.storage.pdEbsSize, 3000, 125)
    * c.tidbCluster.pdNodes

tiflashStorageCost(c) ==
  calculateEbsCost(c.storage.tiflashEbsType, c.storage.tiflashEbsSize, 3000, 125)
    * c.tidbCluster.tiflashNodes

totalStorageCost(c) ==
  Plus(tidbStorageCost(c),
       tikvAdditionalStorageCost(c) + pdStorageCost(c) + tiflashStorageCost(c))

\* backupSizeGB * 0.023, in thousandths of a dollar
s3BackupCost(c) ==
  IF c.operational.backupToS3 THEN c.operational.backupSizeGB * 23 ELSE 0

\* networkTrafficGB * 0.01, in thousandths of a dollar
networkCost(c) == c.operational.networkTrafficGB * 10

\* whole dollars
totalKubernetesCost(c) ==
  c.tidbCluster.eksClusterCount * c.operational.eksClusterCost
    + c.operational.eksMonitoringCost

\* thousandths of a dollar
totalMonthlyCost(c) ==
  Plus(Plus(Times(1000, totalInstanceCost(c)), totalStorageCost(c)),
       s3BackupCost(c) + networkCost(c) + 1000 * totalKubernetesCost(c))

oneTimeCosts(c) == c.operational.migrationCost

\* whole dollars
postgresMonthlyCost(c) == c.postgres.monthlyCost

\* thousandths of a dollar
monthlySavings(c) ==
  IF totalMonthlyCost(c) = NaN THEN NaN
  ELSE 1000 * postgresMonthlyCost(c) - totalMonthlyCost(c)

\* savingsPercentage without the test of postgresMonthlyCost
savingsPercentageUnguarded(c) ==
  [ num |-> monthlySavings(c), den |-> 10 * postgresMonthlyCost(c) ]

\* the percentage num / den: (monthlySavings / postgresMonthlyCost) * 100 with
\* the savings in thousandths of a dollar and the cost in dollars
savingsPercentage(c) ==
  IF postgresMonthlyCost(c) > 0
    THEN [ num |-> monthlySavings(c), den |-> 10 * postgresMonthlyCost(c) ]
    ELSE [ num |-> 0, den |-> 1 ]

\* the JavaScript number Infinity, as 1 / 0; typeof Infinity is "number"
Infinity == [ type |-> "number", num |-> 1, den |-> 0 ]

\* paybackPeriodMonths without the test of monthlySavings
paybackPeriodMonthsUnguarded(c) ==
  [ type |-> "number", num |-> 1000 * oneTimeCosts(c), den |-> monthlySavings(c) ]

\* the number of months num / den, or Infinity; NaN > 0 is false
paybackPeriodMonths(c) ==
  IF monthlySavings(c) # NaN /\ monthlySavings(c) > 0
    THEN [ type |-> "number", num |-> 1000 * oneTimeCosts(c),
           den |-> monthlySavings(c) ]
    ELSE Infinity

\* the Payback Period card is rendered
paybackShown(c) == monthlySavings(c) # NaN /\ monthlySavings(c) > 0

\* the reference PostgreSQL configurations of the comparison tab
pgConfig(name, instanceType) ==
  [ name |-> name, instanceType |-> instanceType,
    cpu |-> postgresInstanceTypes[instanceType].vCPU,
    memory |-> postgresInstanceTypes[instanceType].memory,
    monthlyCost |-> postgresInstanceTypes[instanceType].monthlyCost * 2 ]

pgConfigs ==
  << pgConfig("Small", "db.m5.large"), pgConfig("Medium", "db.r5.xlarge"),
     pgConfig("Large", "db.r5.2xlarge"), pgConfig("X-Large", "db.r5.4xlarge") >>

\* whole dollars; savingsPercentage is the percentage num / den
getTidbEquivalentConfig(c, config) ==
  LET pgVcpu   == postgresInstanceTypes[config.instanceType].vCPU
      pgMemory == postgresInstanceTypes[config.instanceType].memory
      estimatedTidbNodes == Max(3, CeilDiv(pgVcpu * 2, 16))
      recommendedInstanceType ==
        IF pgMemory >= 128 THEN "r5.4xlarge"
        ELSE IF pgMemory >= 64 THEN "r5.2xlarge"
        ELSE "c5.4xlarge"
      tidbCost == ec2InstanceTypes[recommendedInstanceType].monthlyCost
                    * estimatedTidbNodes
      tikvCost == ec2InstanceTypes["i3.4xlarge"].monthlyCost * 3
      pdCost   == ec2InstanceTypes["m5.2xlarge"].monthlyCost * 3
      total    == tidbCost + tikvCost + pdCost + monitoringInstanceCost(c)
  IN  [ tidbNodes |-> estimatedTidbNodes,
        instanceType |-> recommendedInstanceType,
        monthlyCost |-> total,
        savings |-> config.monthlyCost - total,
        savingsPercentage |->
          [ num |-> 100 * (config.monthlyCost - total), den |-> config.monthlyCost ] ]

comparisonConfigs(c) ==
  [ i \in 1..Len(pgConfigs) |->
      [ config |-> pgConfigs[i], tidb |-> getTidbEquivalentConfig(c, pgConfigs[i]) ] ]

(***************************************************************************)
(* The derivation effect.  c is the closure of the render the effect       *)
(* belongs to, s the state its functional updates are applied to.          *)
(***************************************************************************)
historyLimit == 10

\* the instance cost recorded in a history entry, whole dollars
historyInstanceCost(c) ==
  Plus(Times(tidbInstanceCost(c), derivedTidbNodes(c)),
       tikvInstanceCost(c) * derivedTikvNodes(c)
         + pdInstanceCost(c) * c.tidbCluster.pdNodes
         + tiflashInstanceCost(c) * suggestedTiflashNodes(c)
         + monitoringInstanceCost(c))

\* newHistory.length after the shift: the id of the entry being pushed
NewEntryId(kept) == Len(kept)

\* KeptHistory evicting the newest entry instead of the oldest
KeptHistoryDropsNewest(h) ==
  IF Len(h) >= historyLimit THEN SubSeq(h, 1, Len(h) - 1) ELSE h

\* newHistory before the push: the oldest entry is shifted out of a full log
KeptHistory(h) == IF Len(h) >= historyLimit THEN Tail(h) ELSE h

\* RecordedClass keeping the class recorded before
RecordedClassStale(c) == c.comparisonData.previousInstanceType

\* the value the updater stores in previousInstanceType
RecordedClass(c) == c.postgres.instanceType

\* the updater passed to setComparisonData when the source class changed;
\* a template string `${a} -> ${b}` is kept as the pair <<a, b>>
RecordChange(c, prev) ==
  LET prevType == c.comparisonData.previousInstanceType
      newType  == c.postgres.instanceType
      kept     == KeptHistory(prev.history)
      hasLast  == Len(prev.history) > 0
      entry    ==
        [ id |-> NewEntryId(kept),
          from |-> prevType,
          to |-> newType,
          vcpuChange |-> << Lookup(postgresInstanceTypes, prevType, "vCPU", 0),
                            Lookup(postgresInstanceTypes, newType, "vCPU", 0) >>,
          memoryChange |-> << Lookup(postgresInstanceTypes, prevType, "memory", 0),
                              Lookup(postgresInstanceTypes, newType, "memory", 0) >>,
          tidbNodesChange |-> << IF hasLast THEN Last(prev.history).tidbNodes ELSE 3,
                                 derivedTidbNodes(c) >>,
          tikvNodesChange |-> << IF hasLast THEN Last(prev.history).tikvNodes ELSE 3,
                                 derivedTikvNodes(c) >>,
          instanceTypeChange |-> << IF hasLast THEN Last(prev.history).tidbInstanceType
                                               ELSE "c5.4xlarge",
                                    derivedTidbInstanceType(c) >>,
          tidbNodes |-> derivedTidbNodes(c),
          tikvNodes |-> derivedTikvNodes(c),
          tidbInstanceType |-> derivedTidbInstanceType(c),
          monthlyCost |-> historyInstanceCost(c) ]
  IN  [ prev EXCEPT !.previousInstanceType = RecordedClass(c),
                    !.history = Append(kept, entry) ]

\* the fields of tidbCluster that setTidbCluster overwrites in the effect
DerivedClusterFields ==
  {"tidbNodes", "tikvNodes", "useTiflash", "tiflashNodes", "k8sWorkerNodes"}

\* ShouldRecord without the comparison
ShouldRecordAlways(c) == TRUE

\* the source class differs from the one recorded last
ShouldRecord(c) == c.postgres.instanceType # c.comparisonData.previousInstanceType

\* DerivationEffect putting the whole selection back to the classes it starts with
DerivationEffectResetsSelection(c, s) ==
  [ s EXCEPT
      !.tidbCluster = [ @ EXCEPT !.tidbNodes = derivedTidbNodes(c),
                                 !.tikvNodes = derivedTikvNodes(c),
                                 !.useTiflash = useTiflash(c),
                                 !.tiflashNodes = suggestedTiflashNodes(c),
                                 !.k8sWorkerNodes = suggestedWorkerNodes(c) ],
      !.instances = [ tidbInstanceType |-> derivedTidbInstanceType(c),
                      tikvInstanceType |-> "i3.4xlarge",
                      pdInstanceType |-> "m5.4xlarge",
                      tiflashInstanceType |-> "i3.8xlarge",
                      monitoringInstanceType |-> "c5.2xlarge" ],
      !.comparisonData =
          IF ShouldRecord(c) THEN RecordChange(c, @) ELSE @ ]

DerivationEffect(c, s) ==
  [ s EXCEPT
      !.tidbCluster = [ @ EXCEPT !.tidbNodes = derivedTidbNodes(c),
                                 !.tikvNodes = derivedTikvNodes(c),
                                 !.useTiflash = useTiflash(c),
                                 !.tiflashNodes = suggestedTiflashNodes(c),
                                 !.k8sWorkerNodes = suggestedWorkerNodes(c) ],
      !.instances = [ @ EXCEPT !.tidbInstanceType = derivedTidbInstanceType(c) ],
      !.comparisonData =
          IF ShouldRecord(c) THEN RecordChange(c, @) ELSE @ ]

\* the dependency list of the derivation effect
DerivationDeps(c) ==
  << c.postgres.instanceType, c.postgres.instanceCount, c.postgres.readReplicas,
     c.postgres.writeOps, c.postgres.storageGB,
     c.workload.concurrentConnections, c.workload.readWriteRatio, c.workload.type,
     c.workload.trafficSpikes, c.workload.peakRatio,
     c.tidbCluster.dataReplicationFactor, c.tidbCluster.pdNodes,
     c.instances.tidbInstanceType, c.comparisonData.previousInstanceType >>

(***************************************************************************)
(* The cost-breakdown effect.  Values are in thousandths of a dollar.      *)
(***************************************************************************)
costBreakdownData(c) ==
  << [name |-> "TiDB Nodes",    value |-> Times(1000 * tidbInstanceCost(c), c.tidbCluster.tidbNodes)],
     [name |-> "TiKV Nodes",    value |-> 1000 * tikvInstanceCost(c) * c.tidbCluster.tikvNodes],
     [name |-> "PD Nodes",      value |-> 1000 * pdInstanceCost(c) * c.tidbCluster.pdNodes],
     [name |-> "TiFlash Nodes", value |-> 1000 * tiflashInstanceCost(c) * c.tidbCluster.tiflashNodes],
     [name |-> "Monitoring",    value |-> 1000 * monitoringInstanceCost(c)],
     [name |-> "Storage",       value |-> totalStorageCost(c)],
     [name |-> "S3 Backup",     value |-> s3BackupCost(c)],
     [name |-> "Network",       value |-> networkCost(c)],
     [name |-> "Kubernetes",    value |-> 1000 * totalKubernetesCost(c)] >>

\* CostEffect storing a fresh object instead of spreading prev: the log is lost
CostEffectWithoutPrev(c, s) ==
  [ s EXCEPT !.comparisonData = [ @ EXCEPT !.costBreakdown = costBreakdownData(c),
                                           !.history = <<>> ] ]

CostEffect(c, s) ==
  [ s EXCEPT !.comparisonData = [ @ EXCEPT !.costBreakdown = costBreakdownData(c) ] ]

\* CostDeps without totalStorageCost
CostDepsNoStorage(c) ==
  << tidbInstanceCost(c), tikvInstanceCost(c), pdInstanceCost(c),
     tiflashInstanceCost(c), monitoringInstanceCost(c),
     s3BackupCost(c), networkCost(c), totalKubernetesCost(c),
     c.tidbCluster.tidbNodes, c.tidbCluster.tikvNodes, c.tidbCluster.pdNodes,
     c.tidbCluster.tiflashNodes >>

\* the dependency list of the cost-breakdown effect
CostDeps(c) ==
  << tidbInstanceCost(c), tikvInstanceCost(c), pdInstanceCost(c),
     tiflashInstanceCost(c), monitoringInstanceCost(c), totalStorageCost(c),
     s3BackupCost(c), networkCost(c), totalKubernetesCost(c),
     c.tidbCluster.tidbNodes, c.tidbCluster.tikvNodes, c.tidbCluster.pdNodes,
     c.tidbCluster.tiflashNodes >>

(***************************************************************************)
(* A commit: the effects whose dependencies changed run in source order on *)
(* the closure of this render, and their updates are applied in order.     *)
(***************************************************************************)
DerivationPending == DerivationDeps(State) # derivationDeps

CostPending == CostDeps(State) # costDeps

\* no effect is pending: the component is at rest and takes input
Settled == ~DerivationPending /\ ~CostPending

Flush ==
  LET c  == State
      s1 == IF DerivationPending THEN DerivationEffect(c, c) ELSE c
      s2 == IF CostPending THEN CostEffect(c, s1) ELSE s1
  IN  /\ DerivationPending \/ CostPending
      /\ commits < MaxCommits
      /\ commits' = commits + 1
      /\ tidbCluster' = s2.tidbCluster
      /\ instances' = s2.instances
      /\ comparisonData' = s2.comparisonData
      /\ derivationDeps' = DerivationDeps(c)
      /\ costDeps' = CostDeps(c)
      /\ overridden' = IF DerivationPending THEN {} ELSE overridden
      /\ UNCHANGED <<ebsCall, postgres, workload, storage, operational, classChanges, edits>>

(***************************************************************************)
(* Input handlers.  A handler runs between commits, on a settled           *)
(* component; value is the typed value of e.target (Number(value) for a    *)
(* number input, checked for a checkbox).                                  *)
(***************************************************************************)
HandlePostgresChange(name, value) ==
  /\ Settled
  /\ postgres' =
       IF name = "instanceType"
         THEN LET instanceCost == Lookup(postgresInstanceTypes, value, "monthlyCost", 0)
              IN  [ postgres EXCEPT
                      ![name] = value,
                      !.monthlyCost =
                          instanceCost * postgres.instanceCount
                              * (IF postgres.multiAZ THEN 2 ELSE 1)
                            + instanceCost * postgres.readReplicas ]
       ELSE IF name \in {"instanceCount", "readReplicas", "multiAZ"}
         THEN LET instanceCost ==
                    Lookup(postgresInstanceTypes, postgres.instanceType, "monthlyCost", 0)
                  newInstanceCount ==
                    IF name = "instanceCount" THEN value ELSE postgres.instanceCount
                  newMultiAZ == IF name = "multiAZ" THEN value ELSE postgres.multiAZ
                  newReadReplicas ==
                    IF name = "readReplicas" THEN value ELSE postgres.readReplicas
              IN  [ postgres EXCEPT
                      ![name] = value,
                      !.monthlyCost =
                          instanceCost * newInstanceCount * (IF newMultiAZ THEN 2 ELSE 1)
                            + instanceCost * newReadReplicas ]
       ELSE [ postgres EXCEPT ![name] = value ]
  /\ classChanges' =
       IF name = "instanceType" /\ value # postgres.instanceType
         THEN Append(classChanges, <<postgres.instanceType, value>>)
         ELSE classChanges
  /\ edits' = edits + 1
  /\ commits' = 0
  /\ UNCHANGED <<ebsCall, workload, tidbCluster, instances, storage, operational,
                 comparisonData, derivationDeps, costDeps, overridden>>

HandleWorkloadChange(name, value) ==
  /\ Settled
  /\ workload' = [ workload EXCEPT ![name] = value ]
  /\ edits' = edits + 1
  /\ commits' = 0
  /\ UNCHANGED <<ebsCall, postgres, tidbCluster, instances, storage, operational,
                 comparisonData, derivationDeps, costDeps, classChanges, overridden>>

HandleTidbClusterChange(name, value) ==
  /\ Settled
  /\ tidbCluster' = [ tidbCluster EXCEPT ![name] = value ]
  /\ overridden' =
       IF name \in DerivedClusterFields THEN overridden \cup {name} ELSE overridden
  /\ edits' = edits + 1
  /\ commits' = 0
  /\ UNCHANGED <<ebsCall, postgres, workload, instances, storage, operational,
                 comparisonData, derivationDeps, costDeps, classChanges>>

HandleInstanceChange(name, value) ==
  /\ Settled
  /\ instances' = [ instances EXCEPT ![name] = value ]
  /\ edits' = edits + 1
  /\ commits' = 0
  /\ UNCHANGED <<ebsCall, postgres, workload, tidbCluster, storage, operational,
                 comparisonData, derivationDeps, costDeps, classChanges, overridden>>

HandleStorageChange(name, value) ==
  /\ Settled
  /\ storage' = [ storage EXCEPT ![name] = value ]
  /\ edits' = edits + 1
  /\ commits' = 0
  /\ UNCHANGED <<ebsCall, postgres, workload, tidbCluster, instances, operational,
                 comparisonData, derivationDeps, costDeps, classChanges, overridden>>

HandleOperationalChange(name, value) ==
  /\ Settled
  /\ operational' = [ operational EXCEPT ![name] = value ]
  /\ edits' = edits + 1
  /\ commits' = 0
  /\ UNCHANGED <<ebsCall, postgres, workload, tidbCluster, instances, storage,
                 comparisonData, derivationDeps, costDeps, classChanges, overridden>>

(***************************************************************************)
(* The values the form can send, per input name.  A number input passes    *)
(* whatever is typed: its min and max attributes do not restrict onChange. *)
(***************************************************************************)
PostgresInputs ==
  [ instanceType  |-> {"db.m5.large", "db.m5.2xlarge", "db.r5.2xlarge", "db.r5.4xlarge"},
    instanceCount |-> {1, 2, 8},
    storageGB     |-> {0, 1000, 50000},
    iops          |-> {3000, 6000},
    readOps       |-> {5000, 9000},
    writeOps      |-> {1000, 40000},
    monthlyCost   |-> {0, 4416},
    multiAZ       |-> BOOLEAN,
    readReplicas  |-> {0, 1, 3} ]

WorkloadInputs ==
  [ readWriteRatio        |-> {Ratio9010, Ratio8020, Ratio5050, Ratio3070},
    type                  |-> {"OLTP", "OLAP", "Mixed"},
    dataGrowthRate        |-> {10, 20},
    concurrentConnections |-> {1, 200, 2600},
    trafficSpikes         |-> BOOLEAN,
    peakRatio             |-> {2, 3, 6, 10} ]

TidbClusterInputs ==
  [ tidbNodes             |-> {3, 7},
    tikvNodes             |-> {3, 7},
    pdNodes               |-> {1, 3, 5},
    useTiflash            |-> BOOLEAN,
    tiflashNodes          |-> {1, 2, 4},
    eksClusterCount       |-> {1, 2},
    k8sWorkerNodes        |-> {6, 9},
    dataReplicationFactor |-> {3, 4, 5, 6} ]

InstanceInputs ==
  [ tidbInstanceType       |-> {"c5.2xlarge", "c5.4xlarge", "c5.9xlarge", "r5.2xlarge", "r5.4xlarge"},
    tikvInstanceType       |-> {"i3.2xlarge", "i3.4xlarge"},
    pdInstanceType         |-> {"m5.2xlarge", "m5.4xlarge"},
    tiflashInstanceType    |-> {"i3.8xlarge", "i3en.3xlarge"},
    monitoringInstanceType |-> {"c5.2xlarge", "m5.2xlarge"} ]

StorageInputs ==
  [ tidbEbsType           |-> {"gp3", "gp2", "io1"},
    tidbEbsSize           |-> {0, 100},
    tikvUseInstanceStore  |-> BOOLEAN,
    tikvAdditionalEbsType |-> {"gp3", "io2"},
    tikvAdditionalEbsSize |-> {0, 500},
    pdEbsType             |-> {"gp3", "gp2"},
    pdEbsSize             |-> {0, 100},
    tiflashEbsType        |-> {"gp3", "st1"},
    tiflashEbsSize        |-> {0, 1000} ]

OperationalInputs ==
  [ backupToS3        |-> BOOLEAN,
    backupSizeGB      |-> {0, 1000},
    networkTrafficGB  |-> {0, 5000},
    eksClusterCost    |-> {73, 100},
    eksMonitoringCost |-> {0, 200},
    migrationCost     |-> {0, 5000},
    operationalFTE    |-> {5, 10} ]

\* the form renders these inputs only under a condition
InputShown(name) ==
  CASE name = "peakRatio" -> workload.trafficSpikes
    [] name = "tiflashNodes" -> tidbCluster.useTiflash
    [] name = "tiflashInstanceType" -> tidbCluster.useTiflash
    [] OTHER -> TRUE

PostgresEdit ==
  \E name \in DOMAIN PostgresInputs : \E value \in PostgresInputs[name] :
    HandlePostgresChange(name, value)

WorkloadEdit ==
  \E name \in DOMAIN WorkloadInputs : \E value \in WorkloadInputs[name] :
    InputShown(name) /\ HandleWorkloadChange(name, value)

TidbClusterEdit ==
  \E name \in DOMAIN TidbClusterInputs : \E value \in TidbClusterInputs[name] :
    InputShown(name) /\ HandleTidbClusterChange(name, value)

InstanceEdit ==
  \E name \in DOMAIN InstanceInputs : \E value \in InstanceInputs[name] :
    InputShown(name) /\ HandleInstanceChange(name, value)

StorageEdit ==
  \E name \in DOMAIN StorageInputs : \E value \in StorageInputs[name] :
    HandleStorageChange(name, value)

OperationalEdit ==
  \E name \in DOMAIN OperationalInputs : \E value \in OperationalInputs[name] :
    HandleOperationalChange(name, value)

Next ==
  \/ Flush
  \/ edits < MaxEdits /\ PostgresEdit
  \/ edits < MaxEdits /\ WorkloadEdit
  \/ edits < MaxEdits /\ TidbClusterEdit
  \/ edits < MaxEdits /\ InstanceEdit
  \/ edits < MaxEdits /\ StorageEdit
  \/ edits < MaxEdits /\ OperationalEdit

Spec == Init /\ [][Next]_vars

(***************************************************************************)
(* The settling specification: one edit of each kind of input, under the   *)
(* scheduling of React, which runs the effects of a render whenever one is *)
(* pending: a pending commit is not put off for ever.                      *)
(***************************************************************************)
LiveSourceEdit ==
  \E value \in {"db.m5.2xlarge", "db.r5.4xlarge"} :
    HandlePostgresChange("instanceType", value)

LiveWorkloadEdit == HandleWorkloadChange("type", "Mixed")

LiveClusterEdit ==
  \E name \in {"tidbNodes", "pdNodes"} :
    HandleTidbClusterChange(name, 7)

LiveSelectionEdit ==
  \E value \in {"c5.2xlarge", "r5.4xlarge"} :
    HandleInstanceChange("tidbInstanceType", value)

NextLive ==
  \/ Flush
  \/ edits < MaxLiveEdits /\ LiveSourceEdit
  \/ edits < MaxLiveEdits /\ LiveWorkloadEdit
  \/ edits < MaxLiveEdits /\ LiveClusterEdit
  \/ edits < MaxLiveEdits /\ LiveSelectionEdit

SpecLive == Init /\ [][NextLive]_vars /\ WF_vars(Flush)

(***************************************************************************)
(* The change-history specification: the source instance class is changed  *)
(* again and again, so that the log fills up and evicts.                   *)
(***************************************************************************)
HistoryClassInputs == {"db.m5.2xlarge", "db.r5.2xlarge", "db.r5.4xlarge"}

ClassEdit ==
  \E value \in HistoryClassInputs : HandlePostgresChange("instanceType", value)

NextHistory ==
  \/ Flush
  \/ edits < MaxHistoryEdits /\ ClassEdit

SpecHistory == Init /\ [][NextHistory]_vars

(***************************************************************************)
(* The storage-tier sizing specification: only the four inputs of the      *)
(* storage node count are edited, over wider ranges.                       *)
(***************************************************************************)
SizingInputs ==
  [ storageGB             |-> {0, 1000, 30000, 100000},
    writeOps              |-> {0, 1000, 10000, 15000, 15001, 40000, 100000},
    readWriteRatio        |-> {Ratio9010, Ratio8020, Ratio5050, Ratio3070},
    dataReplicationFactor |-> {3, 4, 5} ]

SizingPostgresEdit ==
  \E name \in {"storageGB", "writeOps"} : \E value \in SizingInputs[name] :
    HandlePostgresChange(name, value)

SizingWorkloadEdit ==
  \E value \in SizingInputs.readWriteRatio :
    HandleWorkloadChange("readWriteRatio", value)

SizingClusterEdit ==
  \E value \in SizingInputs.dataReplicationFactor :
    HandleTidbClusterChange("dataReplicationFactor", value)

NextSizing ==
  \/ Flush
  \/ edits < MaxSizingEdits /\ SizingPostgresEdit
  \/ edits < MaxSizingEdits /\ SizingWorkloadEdit
  \/ edits < MaxSizingEdits /\ SizingClusterEdit

SpecSizing == Init /\ [][NextSizing]_vars

(***************************************************************************)
(* The free-text ratio specification.  handleWorkloadChange stores the     *)
(* value of whatever event it is given; only the select of the form keeps  *)
(* readWriteRatio to its four options.  Here the handler also receives     *)
(* other texts, next to edits of the storage size and the write rate.      *)
(***************************************************************************)
OtherRatioTexts ==
  { <<"5", "0", "/", "3", "0">>, <<"3", "0", "/", "5", "0">>,
    <<"4", "0", "/", "6", "0">>, <<"5", "0">>, <<"3">>, <<>> }

RatioTextEdit ==
  \E value \in SizingInputs.readWriteRatio \cup OtherRatioTexts :
    HandleWorkloadChange("readWriteRatio", value)

NextRatio ==
  \/ Flush
  \/ edits < MaxRatioEdits /\ RatioTextEdit
  \/ edits < MaxRatioEdits /\ SizingPostgresEdit

SpecRatio == Init /\ [][NextRatio]_vars

(***************************************************************************)
(* The volume-price specification: calculateEbsCost called on its own,     *)
(* with two arguments as the render calls it (iops = 3000 and              *)
(* throughput = 125 by default) or with all four.                          *)
(***************************************************************************)
EbsTypeArgs == {"gp3", "gp2", "io1", "io2", "st1", "standard"}

EbsSizeArgs == {0, 100, 500, 1000}

EbsIopsArgs == {0, 3000, 6000, 16000}

EbsThroughputArgs == {125, 250, 1000}

CallCalculateEbsCost(type, sizeGB, iops, throughput) ==
  /\ ebsCall' = [ type |-> type, sizeGB |-> sizeGB, iops |-> iops,
                  throughput |-> throughput,
                  cost |-> calculateEbsCost(type, sizeGB, iops, throughput) ]
  /\ UNCHANGED <<postgres, workload, tidbCluster, instances, storage, operational,
                 comparisonData, derivationDeps, costDeps, classChanges,
                 overridden, edits, commits>>

CallWithDefaults ==
  \E type \in EbsTypeArgs : \E sizeGB \in EbsSizeArgs :
    CallCalculateEbsCost(type, sizeGB, 3000, 125)

CallWithAll ==
  \E type \in EbsTypeArgs : \E sizeGB \in EbsSizeArgs :
    \E iops \in EbsIopsArgs : \E throughput \in EbsThroughputArgs :
      CallCalculateEbsCost(type, sizeGB, iops, throughput)

NextEbs ==
  \/ CallWithDefaults
  \/ CallWithAll

SpecEbs == Init /\ [][NextEbs]_vars

(***************************************************************************)
(* The empty-source specification: the instance count field is a number    *)
(* input, and Number(value) of a cleared field or of a typed 0 is 0.       *)
(***************************************************************************)
CountInputs == {0, 1, 2}

ReplicaInputs == {0, 1}

CountEdit ==
  \E value \in CountInputs : HandlePostgresChange("instanceCount", value)

ReplicaEdit ==
  \E value \in ReplicaInputs : HandlePostgresChange("readReplicas", value)

NextCount ==
  \/ Flush
  \/ edits < MaxCountEdits /\ CountEdit
  \/ edits < MaxCountEdits /\ ReplicaEdit
  \/ edits < MaxCountEdits /\ ClassEdit

SpecCount == Init /\ [][NextCount]_vars

(***************************************************************************)
(* Properties.                                                             *)
(***************************************************************************)
\* the inputs the data model calls valid
ValidInputs ==
  /\ postgres.instanceCount >= 1
  /\ workload.concurrentConnections >= 1
  /\ workload.peakRatio >= 2
  /\ workload.readWriteRatio \in {Ratio9010, Ratio8020, Ratio5050, Ratio3070}
  /\ tidbCluster.dataReplicationFactor \in 3..5

\* C1: after every run of the derivation effect on valid inputs, tidbNodes,
\* tikvNodes and pdNodes are at least 3 and tiflashNodes is 0 or at least 2.
\* (In a state with the derivation pending the only step is the commit that
\* runs it.)
C1_DerivedMinimums ==
  [][ (DerivationPending /\ ValidInputs) =>
        /\ tidbCluster'.tidbNodes >= 3
        /\ tidbCluster'.tikvNodes >= 3
        /\ tidbCluster'.pdNodes >= 3
        /\ (tidbCluster'.tiflashNodes = 0 \/ tidbCluster'.tiflashNodes >= 2) ]_vars

\* the <<from, to>> pairs of a history log
Transitions(h) == [ i \in 1..Len(h) |-> <<h[i].from, h[i].to>> ]

\* the last n elements of a sequence
LastN(q, n) == IF Len(q) <= n THEN q ELSE SubSeq(q, Len(q) - n + 1, Len(q))

\* C2: the history log never holds more than 10 entries; at rest it holds the
\* most recent (at most 10) class changes in the order they were made, hence
\* exactly 10 once more than 10 changes were made.
C2_HistoryBound ==
  /\ Len(comparisonData.history) <= 10
  /\ Settled =>
       /\ Transitions(comparisonData.history) = LastN(classChanges, 10)
       /\ (Len(classChanges) > 10 => Len(comparisonData.history) = 10)

\* C2 witness: more than 10 changes were made and recorded, the log holds 10
C2_Witness ==
  /\ Settled
  /\ Len(classChanges) > 10
  /\ Len(comparisonData.history) = 10
  /\ comparisonData.history[10].to = postgres.instanceType

\* C3: the ids of the log are strictly increasing along the log (so no two
\* entries share an id), also after an append that evicted the oldest entry.
C3_IdsIncreasing ==
  \A i \in 1..(Len(comparisonData.history) - 1) :
    comparisonData.history[i].id < comparisonData.history[i + 1].id

\* only the SQL-tier class differs from the dependencies of the last commit,
\* and it is not the class of the memory rule: the caller has just set it
ManualSqlClassPending ==
  /\ derivationDeps # NoDeps
  /\ SubSeq(DerivationDeps(State), 1, 12) = SubSeq(derivationDeps, 1, 12)
  /\ DerivationDeps(State)[14] = derivationDeps[14]
  /\ instances.tidbInstanceType # derivationDeps[13]
  /\ instances.tidbInstanceType # derivedTidbInstanceType(State)

\* C4: once the caller has set the SQL-tier instance class to a class other
\* than the one the memory rule derives, the recomputation this edit triggers
\* keeps the caller's class.
C4_ManualClassKept ==
  [][ ManualSqlClassPending =>
        instances'.tidbInstanceType = instances.tidbInstanceType ]_vars

\* both effects run once more, the cost effect on what the derivation produced
Recompute(c) ==
  LET s1 == DerivationEffect(c, c) IN CostEffect(s1, s1)

C6_AppendOnlyOnClassChange ==
  [][ LET h  == comparisonData.history
          hN == comparisonData'.history
          differs == postgres.instanceType # comparisonData.previousInstanceType
      IN  /\ (hN # h) =>
                /\ differs
                /\ hN = Append(LastN(h, 9), Last(hN))
                /\ Last(hN).from = comparisonData.previousInstanceType
                /\ Last(hN).to = postgres.instanceType
                /\ comparisonData'.previousInstanceType = postgres.instanceType
                /\ postgres' = postgres
          /\ differs => hN # h
          /\ Settled' =>
                /\ comparisonData'.previousInstanceType = postgres'.instanceType
                /\ Len(hN) = Min(10, Len(classChanges'))
                /\ Transitions(hN) = LastN(classChanges', 10) ]_vars

\* C6 witness: one class change and one other edit were made, one entry is logged
C6_Witness ==
  /\ Settled
  /\ edits = 2
  /\ Len(classChanges) = 1
  /\ Len(comparisonData.history) = 1
  /\ comparisonData.history[1].from = "db.r5.2xlarge"
  /\ comparisonData.history[1].to = postgres.instanceType

\* C7: tiflashNodes is 0 whenever useTiflash is false and at least 2 whenever
\* it is true, in every reachable state.
C7_TiflashConsistent ==
  /\ ~tidbCluster.useTiflash => tidbCluster.tiflashNodes = 0
  /\ tidbCluster.useTiflash => tidbCluster.tiflashNodes >= 2

\* C8: dataReplicationFactor is in 3..5 in every reachable state.
C8_ReplicationInRange == tidbCluster.dataReplicationFactor \in 3..5

RECURSIVE SumValues(_)
\* the sum of the values of a breakdown
SumValues(b) == IF b = <<>> THEN 0 ELSE b[1].value + SumValues(Tail(b))

\* C9: in every settled state the total monthly cost equals the sum of the
\* nine entries of the stored cost breakdown.
C9_CostAdditive ==
  Settled =>
    /\ Len(comparisonData.costBreakdown) = 9
    /\ totalMonthlyCost(State) = SumValues(comparisonData.costBreakdown)

\* C9 witness: settled with an analytics tier and a provisioned-IOPS volume
C9_Witness ==
  /\ Settled
  /\ tidbCluster.tiflashNodes >= 2
  /\ storage.tidbEbsType = "io1"
  /\ SumValues(comparisonData.costBreakdown) > 0

\* the SQL node count as the claim states it, from the inputs of c
SqlNodesClaimed(c) ==
  LET units == IF c.instances.tidbInstanceType \in DOMAIN ec2InstanceTypes
                 THEN ec2InstanceTypes[c.instances.tidbInstanceType].vCPU ELSE 16
      cu    == postgresInstanceTypes[c.postgres.instanceType].vCPU
      \* load = cu * count * (1 + replicas / count) = cu * (count + replicas)
      load  == cu * (c.postgres.instanceCount + c.postgres.readReplicas)
      a     == Max(3, CeilDiv(load, units))
      b     == Max(3, CeilDiv(c.workload.concurrentConnections, 500))
      \* spike in quarters: peakRatio is in halves, spike = min(2, peakRatio / 2)
      spike4 == IF ~c.workload.trafficSpikes THEN 4
                ELSE IF c.workload.peakRatio >= 8 THEN 8
                ELSE c.workload.peakRatio
  IN  CeilDiv(Max(a, b) * spike4, 4)

\* 8 vCPU / 32 GB, 2 instances, 1 replica, 200 connections, spikes on, ratio 3
SqlNodesScenario ==
  /\ postgres.instanceType = "db.m5.2xlarge"
  /\ postgres.instanceCount = 2
  /\ postgres.readReplicas = 1
  /\ workload.concurrentConnections = 200
  /\ workload.trafficSpikes
  /\ workload.peakRatio = 6

\* C10 as stated: in every settled state tidbNodes is the claimed value, 5 in
\* the scenario.
C10_SqlNodesSettled ==
  Settled =>
    /\ tidbCluster.tidbNodes = SqlNodesClaimed(State)
    /\ SqlNodesScenario => tidbCluster.tidbNodes = 5

\* C10 amended: in every settled state in which tidbNodes was not edited by
\* hand since the derivation last ran, tidbNodes is the claimed value, 5 in
\* the scenario.
C10_SqlNodesDerived ==
  (Settled /\ "tidbNodes" \notin overridden) =>
    /\ tidbCluster.tidbNodes = SqlNodesClaimed(State)
    /\ SqlNodesScenario => tidbCluster.tidbNodes = 5

\* C10 witness: the scenario, settled, with a second edit that leaves it
C10_Witness ==
  /\ Settled
  /\ SqlNodesScenario
  /\ "tidbNodes" \notin overridden
  /\ tidbCluster.tidbNodes = 5
  /\ instances.tidbInstanceType = "c5.4xlarge"

\* the derivation is pending because writeOps, and nothing else among its
\* dependencies, was raised since it last ran
WriteOpsRaised ==
  /\ derivationDeps # NoDeps
  /\ SubSeq(DerivationDeps(State), 1, 3) = SubSeq(derivationDeps, 1, 3)
  /\ SubSeq(DerivationDeps(State), 5, 14) = SubSeq(derivationDeps, 5, 14)
  /\ postgres.writeOps > derivationDeps[4]

\* C11: when writeOps is raised and every other input is as it was, the
\* derivation that follows writes a tikvNodes that is not below the tikvNodes
\* derived before the raise, whatever the readWriteRatio, storage size and
\* replication factor are.
C11_WriteOpsMonotone ==
  [][ (WriteOpsRaised /\ "tikvNodes" \notin overridden) =>
        tidbCluster'.tikvNodes >= tidbCluster.tikvNodes ]_vars

\* C11 witness: a raise of writeOps to 40000 has moved tikvNodes from 6 to 18
\* under the 30/70 ratio and replication factor 5
C11_Witness ==
  /\ Settled
  /\ postgres.writeOps = 40000
  /\ postgres.storageGB = 1000
  /\ workload.readWriteRatio = Ratio3070
  /\ tidbCluster.dataReplicationFactor = 5
  /\ tidbCluster.tikvNodes = 18

\* C12: the write-heavy multiplier is 1.5 exactly for the text 50/50 and 2
\* exactly for the text 30/70, and for every text outside the four options a
\* derived tikvNodes equals the base storage node count.
C12_ExactRatioMatch ==
  /\ (writeHeavyFactor(State) = <<3, 2>>) <=> (workload.readWriteRatio = Ratio5050)
  /\ (writeHeavyFactor(State) = <<2, 1>>) <=> (workload.readWriteRatio = Ratio3070)
  /\ ( /\ Settled
       /\ "tikvNodes" \notin overridden
       /\ workload.readWriteRatio \notin {Ratio9010, Ratio8020, Ratio5050, Ratio3070} )
       => tidbCluster.tikvNodes = suggestedTikvNodes(State)

\* C13: a call of calculateEbsCost with a class name that is not in the
\* catalog, iops at or above 3000 and throughput at or above 125 returns what
\* the call with gp3 and the same size, iops and throughput returns.
C13_UnknownClassAsGp3 ==
  ( /\ ebsCall # NoCall
    /\ ebsCall.type \notin DOMAIN ebsVolumeTypes
    /\ ebsCall.iops >= 3000
    /\ ebsCall.throughput >= 125 )
    => ebsCall.cost =
         calculateEbsCost("gp3", ebsCall.sizeGB, ebsCall.iops, ebsCall.throughput)

\* C14: a derivation that runs with instanceCount = 0 leaves the topology and
\* the history log as they were and puts no NaN into a node count.
C14_ZeroCountRejected ==
  [][ (DerivationPending /\ postgres.instanceCount = 0) =>
        /\ tidbCluster' = tidbCluster
        /\ comparisonData'.history = comparisonData.history
        /\ tidbCluster'.tidbNodes # NaN
        /\ tidbCluster'.k8sWorkerNodes # NaN ]_vars

\* the savings amount as the claims state it, in thousandths of a dollar:
\* the source monthly cost less the sum of the stored breakdown
SavingsClaimed == 1000 * postgres.monthlyCost - SumValues(comparisonData.costBreakdown)

\* C15 as stated: at rest, with savings above 0 the payback is the quotient of
\* the migration cost by the savings; with savings at or below 0 it is a value
\* that is not a number and is no quotient of two amounts.
C15_PaybackNotANumber ==
  Settled =>
    /\ SavingsClaimed > 0 =>
         /\ paybackPeriodMonths(State).num = 1000 * operational.migrationCost
         /\ paybackPeriodMonths(State).den = SavingsClaimed
    /\ SavingsClaimed <= 0 =>
         /\ paybackPeriodMonths(State).type # "number"
         /\ paybackPeriodMonths(State).den = 0

\* C15 amended: at rest, with savings above 0 the payback is the quotient of
\* the migration cost by the savings; with savings at or below 0 it is the
\* number Infinity, which is no quotient of two amounts, and the Payback
\* Period card is not rendered.
C15_PaybackInfinity ==
  Settled =>
    /\ SavingsClaimed > 0 =>
         /\ paybackPeriodMonths(State).num = 1000 * operational.migrationCost
         /\ paybackPeriodMonths(State).den = SavingsClaimed
    /\ SavingsClaimed <= 0 =>
         /\ paybackPeriodMonths(State) = Infinity
         /\ paybackPeriodMonths(State).type = "number"
         /\ paybackPeriodMonths(State).den = 0
         /\ ~paybackShown(State)

\* C15 witness: at rest with savings above 0 and a payback of 5000 dollars
\* over them
C15_Witness ==
  /\ Settled
  /\ SavingsClaimed > 0
  /\ operational.migrationCost = 5000
  /\ paybackPeriodMonths(State).den = SavingsClaimed
  /\ paybackPeriodMonths(State) # Infinity

\* C16: with a source monthly cost of 0 the savings percentage is exactly 0;
\* with a source monthly cost above 0 it is, at rest, the savings over the
\* source monthly cost times 100.
C16_SavingsPercent ==
  /\ postgres.monthlyCost = 0 => savingsPercentage(State) = [ num |-> 0, den |-> 1 ]
  /\ (Settled /\ postgres.monthlyCost > 0) =>
       /\ savingsPercentage(State).num = SavingsClaimed
       /\ savingsPercentage(State).den = 10 * postgres.monthlyCost

\* C16 witness: at rest with a source monthly cost of 0 and a target cost above 0
C16_Witness ==
  /\ Settled
  /\ postgres.monthlyCost = 0
  /\ SumValues(comparisonData.costBreakdown) > 0
  /\ savingsPercentage(State).num = 0

\* C17: a tier whose configured volume size is 0 has a storage cost of
\* exactly 0, whatever its storage class and node count are, and a call of
\* calculateEbsCost with size 0 returns 0 for every class, known or not, and
\* every iops and throughput value.
C17_ZeroSizeCostsNothing ==
  /\ storage.tidbEbsSize = 0 => tidbStorageCost(State) = 0
  /\ storage.tikvAdditionalEbsSize = 0 => tikvAdditionalStorageCost(State) = 0
  /\ storage.pdEbsSize = 0 => pdStorageCost(State) = 0
  /\ storage.tiflashEbsSize = 0 => tiflashStorageCost(State) = 0
  /\ \A type \in EbsTypeArgs \cup {storage.tidbEbsType, storage.tikvAdditionalEbsType} :
       \A iops \in EbsIopsArgs : \A throughput \in EbsThroughputArgs :
         calculateEbsCost(type, 0, iops, throughput) = 0

\* C17 witness: at rest, the SQL tier on a provisioned-IOPS class with a volume
\* size of 0 and at least 3 nodes
C17_Witness ==
  /\ Settled
  /\ storage.tidbEbsType = "io1"
  /\ storage.tidbEbsSize = 0
  /\ tidbCluster.tidbNodes >= 3
  /\ tidbStorageCost(State) = 0

\* C18: the comparison rows of the reference configurations (node count,
\* recommended class, monthly cost, savings, savings percentage) are the same
\* before and after every step, whatever the step changes.
C18_ComparisonRowsFixed ==
  [][ comparisonConfigs(State)' = comparisonConfigs(State) ]_vars

\* the storage-tier, placement-tier, analytics-tier and monitoring classes
CallerClasses(i) ==
  << i.tikvInstanceType, i.pdInstanceType, i.tiflashInstanceType,
     i.monitoringInstanceType >>

\* C19: the storage-tier, placement-tier, analytics-tier and monitoring
\* classes change only in a step that is an input event of the caller, taken
\* at rest; no commit of the effects changes any of them.
C19_CallerClassesKept ==
  [][ CallerClasses(instances') # CallerClasses(instances) =>
        /\ Settled
        /\ edits' = edits + 1
        /\ tidbCluster' = tidbCluster
        /\ comparisonData' = comparisonData ]_vars

\* C19 witness: the caller has set the storage-tier class, a later change of
\* the source class was derived from, and the storage-tier class is still the
\* caller's
C19_Witness ==
  /\ Settled
  /\ instances.tikvInstanceType = "i3.2xlarge"
  /\ postgres.instanceType = "db.r5.4xlarge"
  /\ instances.tidbInstanceType = "r5.4xlarge"
  /\ Len(comparisonData.history) = 1

\* C20: the entry that a step appends to the log shows, as the values changed
\* from, the tidbNodes, tikvNodes and tidbInstanceType of the entry that was
\* last in the log before the step, also when the step evicts the oldest
\* entry, and 3, 3 and c5.4xlarge when the log was empty.
C20_FromValuesOfLastEntry ==
  [][ LET h  == comparisonData.history
          hN == comparisonData'.history
          e  == hN[Len(hN)]
      IN  hN # h =>
            IF Len(h) > 0
              THEN /\ e.tidbNodesChange[1] = h[Len(h)].tidbNodes
                   /\ e.tikvNodesChange[1] = h[Len(h)].tikvNodes
                   /\ e.instanceTypeChange[1] = h[Len(h)].tidbInstanceType
              ELSE /\ e.tidbNodesChange[1] = 3
                   /\ e.tikvNodesChange[1] = 3
                   /\ e.instanceTypeChange[1] = "c5.4xlarge" ]_vars

\* C20 witness: a full log after an eviction, whose newest entry starts from
\* the node count and class of the entry before it and moves away from them
C20_Witness ==
  LET h == comparisonData.history
  IN  /\ Len(classChanges) > 10
      /\ Len(h) = 10
      /\ h[10].tidbNodesChange[1] = h[9].tidbNodes
      /\ h[10].tidbNodesChange[2] # h[9].tidbNodes
      /\ h[10].instanceTypeChange[1] = h[9].tidbInstanceType
      /\ h[10].instanceTypeChange[2] # h[9].tidbInstanceType

OnlyChanged(skip) ==
  /\ derivationDeps # NoDeps
  /\ \A i \in 1..14 : i \notin skip => DerivationDeps(State)[i] = derivationDeps[i]
  /\ \E i \in skip : DerivationDeps(State)[i] # derivationDeps[i]

\* readWriteRatio alone was changed since the derivation last ran
OnlyRatioChanged == OnlyChanged({7})

\* trafficSpikes or peakRatio alone were changed since the derivation last ran
OnlySpikeChanged == OnlyChanged({9, 10})

\* C22 as stated: the commit that follows a change of readWriteRatio alone
\* leaves tidbNodes and tiflashNodes as they were, and the commit that follows
\* a change of trafficSpikes or peakRatio alone leaves tikvNodes and
\* tiflashNodes as they were.
C22_MultipliersFramed ==
  [][ /\ OnlyRatioChanged =>
           /\ tidbCluster'.tidbNodes = tidbCluster.tidbNodes
           /\ tidbCluster'.tiflashNodes = tidbCluster.tiflashNodes
      /\ OnlySpikeChanged =>
           /\ tidbCluster'.tikvNodes = tidbCluster.tikvNodes
           /\ tidbCluster'.tiflashNodes = tidbCluster.tiflashNodes ]_vars

\* C22 amended: the same, for node counts that were not edited by hand since
\* the derivation last ran; and a commit of the cost effect alone changes no
\* node count.
C22_DerivedMultipliersFramed ==
  [][ /\ (OnlyRatioChanged /\ "tidbNodes" \notin overridden) =>
           tidbCluster'.tidbNodes = tidbCluster.tidbNodes
      /\ (OnlyRatioChanged /\ "tiflashNodes" \notin overridden) =>
           tidbCluster'.tiflashNodes = tidbCluster.tiflashNodes
      /\ (OnlySpikeChanged /\ "tikvNodes" \notin overridden) =>
           tidbCluster'.tikvNodes = tidbCluster.tikvNodes
      /\ (OnlySpikeChanged /\ "tiflashNodes" \notin overridden) =>
           tidbCluster'.tiflashNodes = tidbCluster.tiflashNodes
      /\ (~Settled /\ ~DerivationPending) => tidbCluster' = tidbCluster ]_vars

\* C22 witness: at rest after the ratio was changed to 30/70 and derived from:
\* tikvNodes has doubled, tidbNodes is what it was
C22_Witness ==
  /\ Settled
  /\ overridden = {}
  /\ workload.readWriteRatio = Ratio3070
  /\ derivationDeps[7] = Ratio3070
  /\ tidbCluster.tikvNodes = 6
  /\ tidbCluster.tidbNodes = 5

\* C23: at rest after a change of the source class, the newest history entry
\* has the tidbNodes and tikvNodes of the topology and the tidbInstanceType of
\* the selection.
C23_NewestEntryIsSettled ==
  LET h == comparisonData.history
  IN  (Settled /\ Len(h) > 0) =>
        /\ h[Len(h)].tidbNodes = tidbCluster.tidbNodes
        /\ h[Len(h)].tikvNodes = tidbCluster.tikvNodes
        /\ h[Len(h)].tidbInstanceType = instances.tidbInstanceType

\* C24: the monthlyCost of the entry that a step appends to the log is the
\* cost of the entry's own result: its tidbNodes at the price of its
\* tidbInstanceType, its tikvNodes at the price of the storage-tier class, the
\* placement and analytics nodes at the prices of their classes, and the
\* monitoring class.
C24_EntryCostOfItsResult ==
  [][ LET h  == comparisonData.history
          hN == comparisonData'.history
          e  == hN[Len(hN)]
      IN  hN # h =>
            e.monthlyCost =
              e.tidbNodes * ec2InstanceTypes[e.tidbInstanceType].monthlyCost
                + e.tikvNodes * tikvInstanceCost(State)
                + tidbCluster'.pdNodes * pdInstanceCost(State)
                + tidbCluster'.tiflashNodes * tiflashInstanceCost(State)
                + monitoringInstanceCost(State) ]_vars

\* C25: the log is a continuous chain.  Each entry's from is the to of the
\* entry before it; the entry pushed onto an empty log starts from the source
\* class the component is constructed with; and at rest the to of the newest
\* entry is the current source class and previousInstanceType.
C25_HistoryChain ==
  /\ [](LET h == comparisonData.history
        IN  /\ \A i \in 2..Len(h) : h[i].from = h[i - 1].to
            /\ (Settled /\ Len(h) > 0) =>
                  /\ h[Len(h)].to = postgres.instanceType
                  /\ h[Len(h)].to = comparisonData.previousInstanceType)
  /\ [][ (comparisonData.history = <<>> /\ comparisonData'.history # <<>>) =>
            comparisonData'.history[1].from = "db.r5.2xlarge" ]_vars

\* C25 witness: at rest after a change back to the class the entry before
\* started from
C25_Witness ==
  LET h == comparisonData.history
  IN  /\ Settled
      /\ Len(h) >= 2
      /\ h[Len(h)].to = h[Len(h) - 1].from

\* C26: the storage node count the derivation leaves in tidbCluster is a
\* multiple of 3, for every storage size, write rate, replication factor and
\* readWriteRatio of the select.
C26_TikvNodesMultipleOf3 ==
  Settled => /\ tidbCluster.tikvNodes = derivedTikvNodes(State)
             /\ tidbCluster.tikvNodes % 3 = 0

\* the state with the trafficSpikes checkbox set to b and all else as it is
WithSpikes(b) == [ State EXCEPT !.workload.trafficSpikes = b ]

\* C27: with a peakRatio of at least 1 (2 halves) and all other inputs as
\* they are, the SQL node count derived with trafficSpikes on is at least the
\* one derived with trafficSpikes off; at rest with the box ticked the count in
\* tidbCluster is the former.
C27_SpikesNeverShrink ==
  (Settled /\ overridden = {} /\ workload.peakRatio >= 2
     /\ derivedTidbNodes(State) # NaN) =>
    /\ derivedTidbNodes(WithSpikes(TRUE)) >= derivedTidbNodes(WithSpikes(FALSE))
    /\ workload.trafficSpikes =>
         tidbCluster.tidbNodes >= derivedTidbNodes(WithSpikes(FALSE))

\* the part of totalMonthlyCost that the analytics tier accounts for, in
\* thousandths of a dollar: its instances and its volumes
tiflashShare(c) ==
  1000 * tiflashInstanceCost(c) * c.tidbCluster.tiflashNodes + tiflashStorageCost(c)

\* C28: while useTiflash is false the analytics tier adds nothing to
\* totalMonthlyCost, and at rest its entry of the stored breakdown is 0.
C28_TiflashOffCostsNothing ==
  ~tidbCluster.useTiflash =>
    /\ tiflashShare(State) = 0
    /\ Settled => comparisonData.costBreakdown[4].value = 0

\* price * instanceCount * (multiAZ ? 2 : 1) + price * readReplicas for the
\* source class, count, multi-AZ flag and replica count of c
postgresCostFormula(c) ==
  LET instanceCost ==
        Lookup(postgresInstanceTypes, c.postgres.instanceType, "monthlyCost", 0)
  IN  instanceCost * c.postgres.instanceCount * (IF c.postgres.multiAZ THEN 2 ELSE 1)
        + instanceCost * c.postgres.readReplicas

\* C29: as long as the monthlyCost field itself is never edited (no step of
\* SpecCount edits it), postgres.monthlyCost is the formula's value for the
\* current class, count, multi-AZ flag and replica count, from the state the
\* component is constructed with onwards.
C29_SourceCostFollowsFormula == postgres.monthlyCost = postgresCostFormula(State)

\* C30: neither writer of comparisonData loses the other's update.  In every
\* step costBreakdown is what the cost-breakdown effect stores if it runs and
\* is unchanged otherwise, and history and previousInstanceType are what the
\* history updater returns if the derivation effect runs with a changed source
\* class and are unchanged otherwise, whichever of the two effects run in the
\* commit.
C30_WritersKeepEachOther ==
  [][ LET old      == comparisonData
          new      == comparisonData'
          records  == DerivationPending /\ ShouldRecord(State)
          recorded == RecordChange(State, old)
      IN  /\ new.costBreakdown =
               IF CostPending THEN costBreakdownData(State) ELSE old.costBreakdown
          /\ new.history = IF records THEN recorded.history ELSE old.history
          /\ new.previousInstanceType =
               IF records THEN recorded.previousInstanceType
                          ELSE old.previousInstanceType ]_vars

\* C30 witness: at rest after one input event that made both effects write:
\* the change is logged and the stored breakdown is the one of the new
\* selection
C30_Witness ==
  /\ Settled
  /\ commits >= 2
  /\ Len(comparisonData.history) = 1
  /\ comparisonData.history[1].to = postgres.instanceType
  /\ instances.tidbInstanceType # "r5.2xlarge"
  /\ comparisonData.costBreakdown = costBreakdownData(State)

====
